---- MODULE Spec2Model ----
(***************************************************************************)
(* Model of the neko release plugin: the handler process that serves one   *)
(* release request (HandleRelease -> Service.Run), the three release       *)
(* backends and the rollback sequence ToolBase.RevertGitRelease; and of     *)
(* the gateway that runs a plugin as a child process, Dispatcher.Dispatch.  *)
(*                                                                         *)
(* External commands (git, goreleaser, jreleaser, release-it, the GitHub   *)
(* API) are the environment: every invocation either succeeds, with its   *)
(* effect on the repository, or fails without effect.                      *)
(***************************************************************************)
EXTENDS Integers, Sequences, FiniteSets, TLC

\* ------------------------------------------------------------------ bounds
\* Longest commit history the repository may have before the release starts.
MaxHistory == 2

\* Width in bits of a version component. semver.Version keeps major, minor and
\* patch as uint64; the model keeps the wrap-around on a narrower word.
UintBits == 3

\* Most runs of the init command in one directory.
MaxRuns == 2

\* Longest message of a diagnostic line, in atoms.
MaxMsg == 2

\* Most writes a handler process makes on its two output streams.
MaxWrites == 3

\* Capacity of the pipe between the handler and the gateway, in writes.
PipeCap == 1

\* ------------------------------------------------------------- value sets
NoHash == 0            \* the empty string as a commit hash
NoVersion == <<>>      \* a nil *semver.Version, an unparsable version
\* A tag name or a line of git output: an optional prefix before a version.
NoTag == [prefix |-> "", ver |-> NoVersion]              \* the empty string
GarbageTag == [prefix |-> "garbage", ver |-> NoVersion]  \* no semantic version
\* No .release.neko.json on disk, no loaded configuration.
NoConfig == [ReleaseSystem |-> "", Version |-> NoVersion]

\* A .release.neko.json that exists and cannot be parsed.
UnreadableConfig == [ReleaseSystem |-> "unreadable", Version |-> NoVersion]

ReleaseSystems == {"goreleaser", "jreleaser", "release-it"}

Types == {"major", "minor", "patch"}

\* Versions recorded in the configuration file of the modelled runs.
ConfigVersions == {<<1, 2, 2>>, <<0, 0, 5>>}

\* What `git describe --tags --abbrev=0` can print: nothing, a tag that is
\* no semantic version, a tag of a semantic version.
GitTags == {NoTag, GarbageTag, [prefix |-> "v", ver |-> <<1, 2, 2>>],
            [prefix |-> "v", ver |-> <<1, 3, 0>>]}

\* ------------------------------------------------------------------ state
VARIABLES
    pc,            \* position of the handler process
    request,       \* what main reads from stdin: plugin.Request and its flags
    cfgFile,       \* .release.neko.json on disk: NoConfig or [ReleaseSystem, Version]
    cfg,           \* the loaded *NekoConfig (NoConfig before LoadConfig)
    describeTag,   \* output of git describe in this repository
    versions,      \* handler locals: [old, new] of GetNewVersion, [run, next] of Run
    preflight,     \* outcome of each preflight predicate: "none" | "pass" | "fail"
    guard,         \* outcome of each VersionGuard call: [handler, run] -> "none" | "ok" | "fail"
    step,          \* index of the current sub-step of Release (0 outside Release)
    State,         \* the backend's State struct
    st,            \* the GitReleaseState handed to RevertGitRelease
    repo,          \* the repository, the platform and the machine: commits, tags, releases,
                   \* untracked files, the backend's binary and its configuration file
    calls,         \* side-effecting primitive invocations so far: [op, arg, ok]
    initCalls,     \* the same for the init command: SaveConfig and the backend's generation
    releaseCalls,  \* number of invocations of Tool.Release
    revertCalls,   \* number of invocations of Tool.RevertRelease
    releaseErr,    \* result of Release: "none" | "nil" | "error"
    revertErr,     \* result of RevertGitRelease: "none" | "nil" | the failing step
    run,           \* Service.Run: [returned, err (set of wrapped errors), warned]
    stdout,        \* responses encoded on the primary stream
    exitCode,      \* exit status of the handler process (-1 while running)
    child,         \* the process Dispatch runs: [state, script, next, code]
    pipes,         \* data written by the child and not yet read: [out, err]
    captured,      \* the bytes.Buffers of Dispatch: [out, err]
    dispatch,      \* Dispatcher.Dispatch: [pc, resp, err, text]
    logger         \* one diagnostic line from the plugin logger to the gateway's parser

vars == <<pc, request, cfgFile, cfg, describeTag, versions, preflight, guard,
          step, State, st, repo, calls, initCalls, releaseCalls, revertCalls,
          releaseErr, revertErr, run, stdout, exitCode, child, pipes, captured,
          dispatch, logger>>

\* The state of the gateway, which no step of the handler process changes.
gateway == <<child, pipes, captured, dispatch>>

\* The state of the handler process of the release plugin.
handler == <<pc, request, cfgFile, cfg, describeTag, versions, preflight, guard,
             step, State, st, repo, calls, initCalls, releaseCalls, revertCalls,
             releaseErr, revertErr, run, stdout, exitCode>>

\* ------------------------------------------------------- pure definitions
\* fmt.Sprintf("v%s", v)
TagOf(v) == [prefix |-> "v", ver |-> v]

\* semver.NewVersion on the output of git describe: a leading v is accepted.
ParsesAsSemver(tag) == tag.prefix \in {"", "v"} /\ tag.ver # NoVersion

ParseSemver(tag) == tag.ver

\* The largest value of a version component.
MaxUint == 2 ^ UintBits - 1

\* A version is <<major, minor, patch>>, or <<major, minor, patch, pre>> when it
\* carries a prerelease part: pre is the rank of the prerelease identifier.
NoPrerelease == 0

Pre(v) == IF Len(v) = 4 THEN v[4] ELSE NoPrerelease

\* semver.Version.LessThan: major, minor, patch, then the prerelease part, a
\* prerelease being smaller than the release of the same numbers.
LessThan(a, b) ==
    \/ a[1] < b[1]
    \/ a[1] = b[1] /\ a[2] < b[2]
    \/ a[1] = b[1] /\ a[2] = b[2] /\ a[3] < b[3]
    \/ /\ a[1] = b[1] /\ a[2] = b[2] /\ a[3] = b[3]
       /\ Pre(a) # NoPrerelease
       /\ Pre(b) = NoPrerelease \/ Pre(a) < Pre(b)

\* git.LatestTag: the default 0.1.0 when git describe fails or prints nothing.
LatestTag(described) ==
    IF described = NoTag THEN [prefix |-> "", ver |-> <<0, 1, 0>>] ELSE described

\* The guard rejecting a local version that equals the latest tag.
EnsureVersionIsValid_EqualFails(localVer, latestTag) ==
    IF ~ParsesAsSemver(latestTag) THEN localVer
    ELSE IF ~LessThan(ParseSemver(latestTag), localVer) THEN NoVersion
    ELSE localVer

\* EnsureVersionIsValid: NoVersion stands for the returned error.
EnsureVersionIsValid(localVer, latestTag) ==
    IF ~ParsesAsSemver(latestTag) THEN localVer
    ELSE IF LessThan(localVer, ParseSemver(latestTag)) THEN NoVersion
    ELSE localVer

VersionGuard(c, described) == EnsureVersionIsValid(c.Version, LatestTag(described))

\* uint64 addition of semver.Version.IncMajor, IncMinor and IncPatch.
Inc(n) == (n + 1) % (2 ^ UintBits)

\* NextVersion: IncMajor and IncMinor drop the prerelease part and reset the
\* lower components; IncPatch of a prerelease only drops the prerelease part.
NextVersion(current, t) ==
    CASE t = "major" -> <<Inc(current[1]), 0, 0>>
      [] t = "minor" -> <<current[1], Inc(current[2]), 0>>
      [] t = "patch" -> IF Pre(current) # NoPrerelease
                        THEN <<current[1], current[2], current[3]>>
                        ELSE <<current[1], current[2], Inc(current[3])>>
      [] OTHER -> current

\* ReleaseType.IsValid and the rest of config.Validate.
Validate(c) == c.ReleaseSystem \in ReleaseSystems

\* The registry after the init() functions of the three backends have run.
tools == {"goreleaser", "jreleaser", "release-it"}

Get(name) == name \in tools

\* ---------------------------------------------------------------- requests
\* The request of a release command with its dry-run flag.
ReleaseRequest(command, dryRun) ==
    [command |-> command, dryRun |-> dryRun, force |-> FALSE, system |-> "",
     version |-> NoTag, decoded |-> TRUE]

\* The request of the init command: the force flag, the release-system flag (""
\* when a required flag is missing or invalid) and the version flag (NoTag when
\* absent).
InitRequest(force, system, version) ==
    [command |-> "init", dryRun |-> FALSE, force |-> force, system |-> system,
     version |-> version, decoded |-> TRUE]

\* What main can find on stdin: the requests of the commands it knows, a request
\* with another command, input that is no request.
Requests ==
    {ReleaseRequest(c, d) : c \in Types, d \in BOOLEAN}
    \cup {InitRequest(f, sys, v) :
            f \in BOOLEAN, sys \in ReleaseSystems \cup {""},
            v \in {NoTag, GarbageTag, [prefix |-> "", ver |-> <<1, 0, 0>>]}}
    \cup {ReleaseRequest(c, FALSE) :
            c \in {"init-options", "history", "contributors", "validate", "unknown"}}
    \cup {[ReleaseRequest("", FALSE) EXCEPT !.decoded = FALSE]}

\* ---------------------------------------------------------- initial state
ZeroState ==
    [PreHead |-> NoHash, ReleaseCommitHash |-> NoHash, TagName |-> NoTag,
     PushedCommit |-> FALSE, PushedTag |-> FALSE, Ran |-> FALSE]

ZeroGitReleaseState ==
    [PreHead |-> NoHash, ReleaseHead |-> NoHash, TagName |-> NoTag,
     GitHubReleaseTag |-> NoTag, PushedCommit |-> FALSE, PushedTag |-> FALSE,
     CreatedGitHubRelease |-> FALSE]

Checks == <<"IsClean", "EnsureNotDetached", "OnMainBranch", "HasUpstream", "IsUpToDate">>

History(n) == [i \in 1..n |-> "base"]

\* The tags and the releases a repository with this git describe output has.
TagsOf(described) == IF ParsesAsSemver(described) THEN {described} ELSE {}

\* release.Register, which the init() of each backend calls before main runs:
\* what it leaves on stdout. The registry keeps the tool and prints nothing.
RegisterOutput == <<>>

\* plugin.Response as Dispatch returns it: the stdout document it was parsed
\* from, its status and its Logs. NoResponse is the nil response.
NoResponse == [doc |-> 0, status |-> "", logs |-> <<>>]

\* No diagnostic line is followed.
NoLine ==
    [pc |-> "idle", via |-> "", cat |-> <<>>, msg |-> <<>>, Verbose |-> FALSE,
     line |-> <<>>, entry |-> [level |-> "", category |-> <<>>, message |-> <<>>]]

\* No Dispatch is under way.
GatewayIdle ==
    /\ child = [state |-> "none", script |-> <<>>, next |-> 1, code |-> 0]
    /\ pipes = [out |-> <<>>, err |-> <<>>]
    /\ captured = [out |-> <<>>, err |-> <<>>]
    /\ dispatch = [pc |-> "idle", resp |-> NoResponse, err |-> "", text |-> <<>>]
    /\ logger = NoLine

InitCommon ==
    /\ versions = [old |-> NoVersion, new |-> NoVersion, run |-> NoVersion, next |-> NoVersion]
    /\ preflight = [c \in 1..Len(Checks) |-> "none"]
    /\ guard = [handler |-> "none", run |-> "none"]
    /\ step = 0
    /\ State = ZeroState
    /\ calls = <<>>
    /\ initCalls = <<>>
    /\ releaseCalls = 0
    /\ revertCalls = 0
    /\ releaseErr = "none"
    /\ revertErr = "none"
    /\ run = [returned |-> FALSE, err |-> {}, warned |-> FALSE]
    /\ stdout = RegisterOutput
    /\ exitCode = -1

\* The handler process as main starts.
Init ==
    /\ InitCommon
    /\ GatewayIdle
    /\ pc = "main"
    /\ cfg = NoConfig
    /\ request \in Requests
    /\ cfgFile \in {NoConfig, UnreadableConfig} \cup [ReleaseSystem : ReleaseSystems \cup {"semantic-release"},
                                    Version : ConfigVersions]
    /\ describeTag \in GitTags
    /\ st = ZeroGitReleaseState
    /\ \E n \in 1..MaxHistory, binary \in BOOLEAN, toolConfig \in {"absent", "valid"} :
         repo = [local |-> History(n), remote |-> History(n),
                 localTags |-> TagsOf(describeTag), remoteTags |-> TagsOf(describeTag),
                 releases |-> TagsOf(describeTag), untracked |-> FALSE,
                 binary |-> binary, toolConfig |-> toolConfig]

\* -------------------------------------------------------------- responses
Response(status, code) == [status |-> status, code |-> code]

\* errors.WriteError: one error response on stdout, then os.Exit(1).
WriteError(code) ==
    /\ stdout' = Append(stdout, Response("error", code))
    /\ exitCode' = 1
    /\ pc' = "exited"

\* main after the handler returned resp, nil: the response is encoded and main returns.
Respond(resp) ==
    /\ stdout' = Append(stdout, resp)
    /\ exitCode' = 0
    /\ pc' = "exited"

\* --------------------------------------------------------------- main
\* What writeError of main puts on stdout.
ErrorOutput_Stderr(code) == <<>>

\* main.go:68-82, writeError: one error response on stdout.
ErrorOutput(code) == <<Response("error", code)>>

\* main.go:26-27 and 58-59: writeError, then os.Exit(1).
ExitWithError(code) ==
    /\ stdout' = stdout \o ErrorOutput(code)
    /\ exitCode' = 1
    /\ pc' = "exited"

\* main.go:36-55: the handler of each command, "" for an unknown command.
HandlerOf(command) ==
    CASE command \in Types -> "LoadConfig"
      [] command = "init" -> "HandleInit"
      [] command = "init-options" -> "GetAvailableOptions"
      [] command = "history" -> "HandleHistory"
      [] command = "contributors" -> "HandleContributors"
      [] command = "validate" -> "HandleValidate"
      [] OTHER -> ""

\* main.go:22-60: the request is decoded and handed to the handler of its command
Main ==
    /\ pc = "main"
    /\ IF ~request.decoded THEN ExitWithError("PARSE_ERROR")
       ELSE IF HandlerOf(request.command) = "" THEN ExitWithError("EXECUTION_ERROR")
       ELSE /\ pc' = HandlerOf(request.command)
            /\ UNCHANGED <<stdout, exitCode>>
    /\ UNCHANGED <<logger, gateway, initCalls, request, cfgFile, cfg, describeTag, versions, preflight, guard, step,
                   State, st, repo, calls, releaseCalls, revertCalls, releaseErr,
                   revertErr, run>>

\* os.WriteFile truncates and then writes: it leaves the new content, or on a
\* failure the old content (the file could not be opened) or a truncated file
\* that LoadConfig cannot read (the write broke off).
WriteFile(file, content, outcome) ==
    CASE outcome = "written" -> content
      [] outcome = "not opened" -> file
      [] outcome = "truncated" -> UnreadableConfig

\* config.Exists
Exists(file) == file # NoConfig

\* buildConfigFromFlags: the version flag, 0.1.0 when it is absent.
ConfigFromFlags(req) ==
    [ReleaseSystem |-> req.system,
     Version |-> IF req.version = NoTag THEN <<0, 1, 0>> ELSE req.version.ver]

\* ToolBase.RequireBinary: exec.LookPath of the backend's binary.
RequireBinary(r) == r.binary

\* GoReleaser.Init, JReleaser.Init, ReleaseIt.Init: RequireBinary, then the
\* generation of the backend's configuration file, skipped when os.Stat finds
\* the file, then the check of the configuration. gen is what the generation
\* does when it runs: it fails, or leaves a file that passes the check or not.
ToolInit(r, gen) ==
    IF ~RequireBinary(r) THEN [repo |-> r, err |-> "missing", generated |-> FALSE]
    ELSE IF r.toolConfig # "absent"
    THEN [repo |-> r, err |-> IF r.toolConfig = "valid" THEN "nil" ELSE "check",
          generated |-> FALSE]
    ELSE IF gen = "failed" THEN [repo |-> r, err |-> "init", generated |-> TRUE]
    ELSE [repo |-> [r EXCEPT !.toolConfig = gen],
          err |-> IF gen = "valid" THEN "nil" ELSE "check", generated |-> TRUE]

Call(op, tag, hash, ok) == [op |-> op, tag |-> tag, hash |-> hash, ok |-> ok]

\* init/handler.go:29-168, HandleInit: the code of the response, the
\* configuration file and the machine it leaves, and the side-effecting calls
\* it made; saveOutcome is what os.WriteFile does, gen what the generation does.
\* A failure of the backend's Init is logged and the response is a success.
InitResult(req, file, r, saveOutcome, gen) ==
    LET new == ConfigFromFlags(req)
        save == Call("SaveConfig", TagOf(new.Version), NoHash, saveOutcome = "written")
        init == ToolInit(r, gen)
    IN
    IF Exists(file) /\ ~req.force
    THEN [code |-> "CONFIG_EXISTS", file |-> file, repo |-> r, calls |-> <<>>]
    ELSE IF req.system = ""
    THEN [code |-> "INVALID_FLAGS", file |-> file, repo |-> r, calls |-> <<>>]
    ELSE IF req.version # NoTag /\ (req.version.prefix # "" \/ req.version.ver = NoVersion)
    THEN [code |-> "VALIDATION_ERROR", file |-> file, repo |-> r, calls |-> <<>>]
    ELSE IF saveOutcome # "written"
    THEN [code |-> "SAVE_ERROR", file |-> WriteFile(file, new, saveOutcome),
          repo |-> r, calls |-> <<save>>]
    ELSE IF ~Get(req.system)
    THEN [code |-> "RELEASE_SYSTEM_ERROR", file |-> new, repo |-> r, calls |-> <<save>>]
    ELSE [code |-> "init", file |-> new, repo |-> init.repo,
          calls |-> IF init.generated
                    THEN <<save, Call("Generate", NoTag, NoHash, init.err # "init")>>
                    ELSE <<save>>]

\* init/handler.go:29-168, HandleInit, and main.go:62
HandleInit ==
    /\ pc = "HandleInit"
    /\ \E saveOutcome \in {"written", "not opened", "truncated"},
          gen \in {"valid", "invalid", "failed"} :
         LET res == InitResult(request, cfgFile, repo, saveOutcome, gen) IN
         /\ cfgFile' = res.file
         /\ repo' = res.repo
         /\ initCalls' = initCalls \o res.calls
         /\ Respond(Response(IF res.code = "init" THEN "success" ELSE "error", res.code))
    /\ UNCHANGED <<logger, gateway, request, cfg, describeTag, versions, preflight, guard, step,
                   State, st, calls, releaseCalls, revertCalls, releaseErr, revertErr,
                   run>>

\* validate.go:24-151, HandleValidate, and main.go:62
HandleValidate ==
    /\ pc = "HandleValidate"
    /\ IF ~Exists(cfgFile) THEN Respond(Response("error", "CONFIG_NOT_FOUND"))
       ELSE IF ~Validate(cfgFile) THEN Respond(Response("error", "CONFIG_INVALID"))
       ELSE Respond(Response("success", "validate"))
    /\ UNCHANGED <<logger, gateway, initCalls, request, cfgFile, cfg, describeTag, versions, preflight, guard, step,
                   State, st, repo, calls, releaseCalls, revertCalls, releaseErr,
                   revertErr, run>>

\* GetAvailableOptions, HandleHistory, HandleContributors: each returns a success
\* response and a nil error whatever git answers; main.go:62 encodes it.
HandleQuery ==
    /\ pc \in {"GetAvailableOptions", "HandleHistory", "HandleContributors"}
    /\ Respond(Response("success", request.command))
    /\ UNCHANGED <<logger, gateway, initCalls, request, cfgFile, cfg, describeTag, versions, preflight, guard, step,
                   State, st, repo, calls, releaseCalls, revertCalls, releaseErr,
                   revertErr, run>>

\* ------------------------------------------------------ HandleRelease
\* handler.go:28-46, config.LoadConfig
LoadConfig ==
    /\ pc = "LoadConfig"
    /\ IF cfgFile = NoConfig \/ ~Validate(cfgFile)
       THEN /\ Respond(Response("error", "CONFIG_NOT_FOUND"))
            /\ UNCHANGED cfg
       ELSE /\ cfg' = cfgFile
            /\ pc' = "GetNewVersion"
            /\ UNCHANGED <<stdout, exitCode>>
    /\ UNCHANGED <<logger, gateway, initCalls, request, cfgFile, describeTag, versions, preflight, guard, step,
                   State, st, repo, calls, releaseCalls, revertCalls, releaseErr,
                   revertErr, run>>

\* handler.go:52-67, Service.GetNewVersion
GetNewVersion ==
    /\ pc = "GetNewVersion"
    /\ LET version == VersionGuard(cfg, describeTag) IN
       IF version = NoVersion
       THEN /\ guard' = [guard EXCEPT !.handler = "fail"]
            /\ Respond(Response("error", "VERSION_ERROR"))
            /\ UNCHANGED versions
       ELSE /\ guard' = [guard EXCEPT !.handler = "ok"]
            /\ versions' = [versions EXCEPT !.old = version,
                                            !.new = NextVersion(version, request.command)]
            /\ pc' = "DryRun"
            /\ UNCHANGED <<stdout, exitCode>>
    /\ UNCHANGED <<logger, gateway, initCalls, request, cfgFile, cfg, describeTag, preflight, step, State, st,
                   repo, calls, releaseCalls, revertCalls, releaseErr, revertErr, run>>

\* handler.go:70-111, the dry-run preview
DryRun ==
    /\ pc = "DryRun"
    /\ IF request.dryRun
       THEN Respond(Response("success", "preview"))
       ELSE /\ pc' = "Preflight"
            /\ UNCHANGED <<stdout, exitCode>>
    /\ UNCHANGED <<logger, gateway, initCalls, request, cfgFile, cfg, describeTag, versions, preflight, guard,
                   step, State, st, repo, calls, releaseCalls, revertCalls,
                   releaseErr, revertErr, run>>

\* ------------------------------------------------------------ Service.Run
\* Preflight reporting a missing upstream and a stale branch under each other's code.
PreflightCodes_Swapped == <<"UNCOMMITTED_CHANGES", "DETACHED_HEAD", "INCORRECT_BRANCH",
                            "BRANCH_OUT_OF_DATE", "NO_UPSTREAM_BRANCH">>

\* The code Preflight hands to errors.WriteError for each predicate.
PreflightCodes == <<"UNCOMMITTED_CHANGES", "DETACHED_HEAD", "INCORRECT_BRANCH",
                    "NO_UPSTREAM_BRANCH", "BRANCH_OUT_OF_DATE">>

RECURSIVE FirstFailure(_, _, _)
FirstFailure(res, i, n) ==
    IF i > n THEN 0
    ELSE IF ~res[i] THEN i
    ELSE FirstFailure(res, i + 1, n)

\* Preflight with a last predicate whose failure does not end the process.
PreflightFailure_IgnoresUpToDate(res) == FirstFailure(res, 1, Len(Checks) - 1)

\* Preflight: the index of the predicate whose failure ends the process, 0 when
\* Preflight returns. res[i] is what predicate i answers when it is evaluated.
PreflightFailure(res) == FirstFailure(res, 1, Len(Checks))

\* service.go:33, Preflight
Preflight ==
    /\ pc = "Preflight"
    /\ \E res \in [1..Len(Checks) -> BOOLEAN] :
         LET f == PreflightFailure(res) IN
         /\ preflight' = [i \in 1..Len(Checks) |->
                            IF f # 0 /\ i > f THEN "none"
                            ELSE IF res[i] THEN "pass" ELSE "fail"]
         /\ IF f # 0
            THEN WriteError(PreflightCodes[f])
            ELSE /\ pc' = "VersionGuard"
                 /\ UNCHANGED <<stdout, exitCode>>
    /\ UNCHANGED <<logger, gateway, initCalls, request, cfgFile, cfg, describeTag, versions, guard, step, State,
                   st, repo, calls, releaseCalls, revertCalls, releaseErr, revertErr,
                   run>>

\* service.go:34-37, VersionGuard
RunVersionGuard ==
    /\ pc = "VersionGuard"
    /\ LET version == VersionGuard(cfg, describeTag) IN
       IF version = NoVersion
       THEN /\ guard' = [guard EXCEPT !.run = "fail"]
            /\ run' = [run EXCEPT !.returned = TRUE, !.err = {"guard"}]
            /\ pc' = "Respond"
            /\ UNCHANGED versions
       ELSE /\ guard' = [guard EXCEPT !.run = "ok"]
            /\ versions' = [versions EXCEPT !.run = version]
            /\ pc' = "Get"
            /\ UNCHANGED run
    /\ UNCHANGED <<logger, gateway, initCalls, request, cfgFile, cfg, describeTag, preflight, step, State, st,
                   repo, calls, releaseCalls, revertCalls, releaseErr, revertErr,
                   stdout, exitCode>>

\* service.go:39-67: the backend lookup, ResolveReleaseType, NextVersion and the
\* call of releaser.Release
GetTool ==
    /\ pc = "Get"
    /\ IF ~Get(cfg.ReleaseSystem)
       THEN /\ run' = [run EXCEPT !.returned = TRUE, !.err = {"not found"}]
            /\ pc' = "Respond"
            /\ UNCHANGED <<versions, step, releaseCalls>>
       ELSE /\ versions' = [versions EXCEPT !.next = NextVersion(versions.run, request.command)]
            /\ releaseCalls' = releaseCalls + 1
            /\ pc' = "Release"
            /\ step' = 1
            /\ UNCHANGED run
    /\ UNCHANGED <<logger, gateway, initCalls, request, cfgFile, cfg, describeTag, preflight, guard, State, st,
                   repo, calls, revertCalls, releaseErr, revertErr, stdout, exitCode>>

\* Run returning the release failure without a rollback pass.
AfterRelease_NoRollback(failed) == IF failed THEN "RevertReturned" ELSE "updateConfig"

\* Run rolling back whatever Release returned.
AfterRelease_AlwaysRollback(failed) == "RevertRelease"

\* service.go:67-79: where Run goes when Release has returned
AfterRelease(failed) == IF failed THEN "RevertRelease" ELSE "updateConfig"

\* ------------------------------------------------------------ Tool.Release
\* Release of goreleaser running the tool before it pushes the tag.
ReleaseSteps_ToolBeforeTagPush(b) ==
    CASE b = "goreleaser" ->
           <<"Head", "CreateReleaseCommit", "ReleaseHead", "CreateGitTag",
             "PushCommits", "DryRun", "RunTool", "PushGitTag">>
      [] b = "jreleaser" ->
           <<"Head", "Sync", "CreateReleaseCommit", "ReleaseHead", "PushCommits",
             "DryRun", "RunTool">>
      [] b = "release-it" -> <<"Head", "RunTool", "ReleaseHead">>

\* The sub-steps of Release, in the order of each backend's code.
ReleaseSteps(b) ==
    CASE b = "goreleaser" ->
           <<"Head", "CreateReleaseCommit", "ReleaseHead", "CreateGitTag",
             "PushCommits", "PushGitTag", "DryRun", "RunTool">>
      [] b = "jreleaser" ->
           <<"Head", "Sync", "CreateReleaseCommit", "ReleaseHead", "PushCommits",
             "DryRun", "RunTool">>
      [] b = "release-it" -> <<"Head", "RunTool", "ReleaseHead">>

AtStep(name) == pc = "Release" /\ ReleaseSteps(cfg.ReleaseSystem)[step] = name

\* The sub-step returned: Release goes on, returns nil after its last sub-step
\* and returns the error of a failed one.
StepReturns(ok) ==
    IF ~ok
    THEN /\ releaseErr' = "error"
         /\ pc' = AfterRelease(TRUE)
         /\ step' = 0
    ELSE IF step = Len(ReleaseSteps(cfg.ReleaseSystem))
    THEN /\ releaseErr' = "nil"
         /\ pc' = AfterRelease(FALSE)
         /\ step' = 0
    ELSE /\ step' = step + 1
         /\ UNCHANGED <<pc, releaseErr>>

\* git.Head: the hash of HEAD is the length of the local history.
GitHead == Len(repo.local)

ReleaseTag == TagOf(versions.next)

unchangedByRelease ==
    UNCHANGED <<logger, gateway, initCalls, request, cfgFile, cfg, describeTag, versions, preflight, guard, st,
                releaseCalls, revertCalls, revertErr, run, stdout, exitCode>>

\* goreleaser.go:69-73, the first git.Head of Release
ReleaseGetPreHead ==
    /\ AtStep("Head")
    /\ \E ok \in BOOLEAN :
         /\ State' = IF ok THEN [State EXCEPT !.PreHead = GitHead] ELSE State
         /\ StepReturns(ok)
    /\ UNCHANGED <<repo, calls>>
    /\ unchangedByRelease

\* What running the backend's binary can return: exec.Command(...).CombinedOutput
\* fails when the binary is not on the machine.
Exec(r) == IF r.binary THEN BOOLEAN ELSE {FALSE}

\* jreleaser, Release: syncJReleaser writes the version into jreleaser.yml and
\* fails when there is no jreleaser.yml
SyncJReleaser ==
    /\ AtStep("Sync")
    /\ \E ok \in IF repo.toolConfig = "absent" THEN {FALSE} ELSE BOOLEAN : StepReturns(ok)
    /\ UNCHANGED <<State, repo, calls>>
    /\ unchangedByRelease

\* tool.go:142-159, CreateReleaseCommit
CreateReleaseCommit ==
    /\ AtStep("CreateReleaseCommit")
    /\ \E ok \in BOOLEAN :
         /\ calls' = Append(calls, Call("CreateReleaseCommit", NoTag, NoHash, ok))
         /\ repo' = IF ok THEN [repo EXCEPT !.local = Append(@, "release")] ELSE repo
         /\ StepReturns(ok)
    /\ UNCHANGED State
    /\ unchangedByRelease

\* goreleaser.go:79-83, the second git.Head of Release. release-it reads it
\* after the tool has run and then records everything the tool has done.
ReleaseGetReleaseHead ==
    /\ AtStep("ReleaseHead")
    /\ \E ok \in BOOLEAN :
         /\ State' =
              IF ~ok THEN State
              ELSE IF cfg.ReleaseSystem = "release-it"
              THEN [State EXCEPT !.ReleaseCommitHash = GitHead,
                                 !.TagName = ReleaseTag,
                                 !.PushedCommit = TRUE,
                                 !.PushedTag = TRUE,
                                 !.Ran = TRUE]
              ELSE [State EXCEPT !.ReleaseCommitHash = GitHead]
         /\ StepReturns(ok)
    /\ UNCHANGED <<repo, calls>>
    /\ unchangedByRelease

\* tool.go:162-179, CreateGitTag, and goreleaser.go:85-88
CreateGitTag ==
    /\ AtStep("CreateGitTag")
    /\ \E ok \in BOOLEAN :
         /\ calls' = Append(calls, Call("CreateGitTag", ReleaseTag, NoHash, ok))
         /\ repo' = IF ok THEN [repo EXCEPT !.localTags = @ \cup {ReleaseTag}] ELSE repo
         /\ State' = IF ok THEN [State EXCEPT !.TagName = ReleaseTag] ELSE State
         /\ StepReturns(ok)
    /\ unchangedByRelease

\* git push origin HEAD
PushedHistory(r) == [r EXCEPT !.remote = r.local]

\* PushCommits recording the push whether or not it succeeded.
PushCommits_RecordsAlways ==
    /\ AtStep("PushCommits")
    /\ \E ok \in BOOLEAN :
         /\ calls' = Append(calls, Call("PushCommits", NoTag, NoHash, ok))
         /\ repo' = IF ok THEN PushedHistory(repo) ELSE repo
         /\ State' = [State EXCEPT !.PushedCommit = TRUE]
         /\ StepReturns(ok)
    /\ unchangedByRelease

\* tool.go:182-197, PushCommits, and goreleaser.go:90-93
PushCommits ==
    /\ AtStep("PushCommits")
    /\ \E ok \in BOOLEAN :
         /\ calls' = Append(calls, Call("PushCommits", NoTag, NoHash, ok))
         /\ repo' = IF ok THEN PushedHistory(repo) ELSE repo
         /\ State' = IF ok THEN [State EXCEPT !.PushedCommit = TRUE] ELSE State
         /\ StepReturns(ok)
    /\ unchangedByRelease

\* tool.go:200-217, PushGitTag, and goreleaser.go:95-98
PushGitTag ==
    /\ AtStep("PushGitTag")
    /\ \E ok \in BOOLEAN :
         /\ calls' = Append(calls, Call("PushGitTag", ReleaseTag, NoHash, ok))
         /\ repo' = IF ok THEN [repo EXCEPT !.remoteTags = @ \cup {ReleaseTag}] ELSE repo
         /\ State' = IF ok THEN [State EXCEPT !.PushedTag = TRUE] ELSE State
         /\ StepReturns(ok)
    /\ unchangedByRelease

\* runGoReleaserDryRun, runJReleaserDryRun: a failed dry run is a warning and
\* Release goes on; a dry run that ran leaves its build output behind.
ToolDryRun ==
    /\ AtStep("DryRun")
    /\ \E ok \in Exec(repo) :
         /\ calls' = Append(calls, Call("DryRun", NoTag, NoHash, ok))
         /\ repo' = IF ok THEN [repo EXCEPT !.untracked = TRUE] ELSE repo
    /\ StepReturns(TRUE)
    /\ UNCHANGED State
    /\ unchangedByRelease

\* What a successful run of the release tool does to the repository and the
\* platform: goreleaser publishes the release of the pushed tag, jreleaser tags
\* and publishes on the platform, release-it commits, tags, pushes and publishes.
ToolEffect(b, r, tag) ==
    CASE b = "goreleaser" ->
           [r EXCEPT !.releases = @ \cup {tag}, !.untracked = TRUE]
      [] b = "jreleaser" ->
           [r EXCEPT !.remoteTags = @ \cup {tag}, !.releases = @ \cup {tag},
                     !.untracked = TRUE]
      [] b = "release-it" ->
           [r EXCEPT !.local = Append(@, "release"),
                     !.remote = Append(r.local, "release"),
                     !.localTags = @ \cup {tag}, !.remoteTags = @ \cup {tag},
                     !.releases = @ \cup {tag}]

\* release-it recording the tag as soon as its tool run has succeeded.
ToolRecorded_ReleaseItRecordsTag(b, S, tag) ==
    CASE b = "goreleaser" -> [S EXCEPT !.Ran = TRUE]
      [] b = "jreleaser" -> [S EXCEPT !.TagName = tag, !.Ran = TRUE]
      [] b = "release-it" -> [S EXCEPT !.TagName = tag, !.PushedTag = TRUE]

\* What Release records when the release tool has succeeded.
ToolRecorded(b, S, tag) ==
    CASE b = "goreleaser" -> [S EXCEPT !.Ran = TRUE]
      [] b = "jreleaser" -> [S EXCEPT !.TagName = tag, !.Ran = TRUE]
      [] b = "release-it" -> S

\* runGoReleaserRelease, runJReleaserRelease, runReleaseItRelease
RunTool ==
    /\ AtStep("RunTool")
    /\ \E ok \in Exec(repo) :
         /\ calls' = Append(calls, Call("RunTool", ReleaseTag, NoHash, ok))
         /\ repo' = IF ok THEN ToolEffect(cfg.ReleaseSystem, repo, ReleaseTag) ELSE repo
         /\ State' = IF ok THEN ToolRecorded(cfg.ReleaseSystem, State, ReleaseTag) ELSE State
         /\ StepReturns(ok)
    /\ unchangedByRelease

\* ------------------------------------------------------ Tool.RevertRelease
\* GoReleaser.RevertRelease, JReleaser.RevertRelease, ReleaseIt.RevertRelease:
\* the GitReleaseState built from the backend's State.
ToGitReleaseState(b, S) ==
    [PreHead |-> S.PreHead,
     ReleaseHead |-> S.ReleaseCommitHash,
     TagName |-> S.TagName,
     PushedCommit |-> S.PushedCommit,
     PushedTag |-> IF b = "jreleaser" THEN S.Ran ELSE S.PushedTag,
     GitHubReleaseTag |-> S.TagName,
     CreatedGitHubRelease |-> S.Ran]

\* service.go:71, releaser.RevertRelease
RevertRelease ==
    /\ pc = "RevertRelease"
    /\ revertCalls' = revertCalls + 1
    /\ st' = ToGitReleaseState(cfg.ReleaseSystem, State)
    /\ pc' = "DeleteGitHubRelease"
    /\ UNCHANGED <<logger, gateway, initCalls, request, cfgFile, cfg, describeTag, versions, preflight, guard,
                   step, State, repo, calls, releaseCalls, releaseErr, revertErr, run,
                   stdout, exitCode>>

\* ------------------------------------------------ ToolBase.RevertGitRelease
\* The platform release looked up under an empty tag only.
DeletesGitHubRelease_EmptyTag(s) == s.CreatedGitHubRelease /\ s.GitHubReleaseTag = NoTag

\* tool.go:67
DeletesGitHubRelease(s) == s.CreatedGitHubRelease /\ s.GitHubReleaseTag # NoTag

\* tool.go:78
DeletesTags(s) == s.TagName # NoTag

\* The remote tag deleted whether or not it was pushed.
DeletesRemoteTag_Always(s) == TRUE

\* tool.go:81
DeletesRemoteTag(s) == s.PushedTag

\* The compensation chosen by the recorded pre-release HEAD before the pushed flag.
CommitCompensation_ResetFirst(s) ==
    IF s.ReleaseHead = NoHash THEN "none"
    ELSE IF s.PreHead # NoHash THEN "reset"
    ELSE IF s.PushedCommit THEN "revert"
    ELSE "inconsistent"

\* tool.go:93-118: the compensation of the release commit
CommitCompensation(s) ==
    IF s.ReleaseHead = NoHash THEN "none"
    ELSE IF s.PushedCommit THEN "revert"
    ELSE IF s.PreHead # NoHash THEN "reset"
    ELSE "inconsistent"

\* The cleanup run only when a release commit was recorded.
CleansUntracked_OnlyAfterCommit(s) == s.ReleaseHead # NoHash

\* tool.go:121-128: the final cleanup has no condition.
CleansUntracked(s) == TRUE

\* A failed deletion of the local tag reported like that of the remote tag.
TagStepError_LocalFatal(localOk, remoteTried, remoteOk) ==
    IF ~localOk THEN "local tag"
    ELSE IF remoteTried /\ ~remoteOk THEN "remote tag"
    ELSE "nil"

\* tool.go:79-89: the error of the tag step, "nil" when revert goes on.
TagStepError(localOk, remoteTried, remoteOk) ==
    IF remoteTried /\ ~remoteOk THEN "remote tag" ELSE "nil"

\* RevertGitRelease keeping the error of a step and going on to the next step.
RevertStepReturns_GoesOn(err, next) ==
    /\ pc' = next
    /\ revertErr' = IF err # "nil" THEN err ELSE revertErr

\* RevertGitRelease returns err, or goes on to the next step.
RevertStepReturns(err, next) ==
    IF err # "nil"
    THEN /\ revertErr' = err
         /\ pc' = "RevertReturned"
    ELSE /\ pc' = next
         /\ UNCHANGED revertErr

unchangedByRevert ==
    UNCHANGED <<logger, gateway, initCalls, request, cfgFile, cfg, describeTag, versions, preflight, guard, step,
                State, st, releaseCalls, revertCalls, releaseErr, run, stdout,
                exitCode>>

\* tool.go:66-75
RevertDeleteGitHubRelease ==
    /\ pc = "DeleteGitHubRelease"
    /\ IF DeletesGitHubRelease(st)
       THEN \E ok \in BOOLEAN :
              /\ calls' = Append(calls, Call("DeleteGitHubRelease", st.GitHubReleaseTag, NoHash, ok))
              /\ repo' = IF ok THEN [repo EXCEPT !.releases = @ \ {st.GitHubReleaseTag}]
                         ELSE repo
              /\ RevertStepReturns(IF ok THEN "nil" ELSE "github release", "Tags")
       ELSE /\ RevertStepReturns("nil", "Tags")
            /\ UNCHANGED <<repo, calls>>
    /\ unchangedByRevert

\* tool.go:77-90. git tag -d and git push --delete succeed only on a tag that exists.
RevertTags ==
    /\ pc = "Tags"
    /\ IF DeletesTags(st)
       THEN \E localOk \in {FALSE, st.TagName \in repo.localTags},
               remoteOk \in {FALSE, st.TagName \in repo.remoteTags} :
              LET remoteTried == DeletesRemoteTag(st)
                  localCall == Call("DeleteLocalTag", st.TagName, NoHash, localOk)
                  remoteCall == Call("DeleteRemoteTag", st.TagName, NoHash, remoteOk)
              IN
              /\ calls' = IF remoteTried THEN calls \o <<localCall, remoteCall>>
                          ELSE Append(calls, localCall)
              /\ repo' = [repo EXCEPT
                            !.localTags = IF localOk THEN @ \ {st.TagName} ELSE @,
                            !.remoteTags = IF remoteTried /\ remoteOk
                                           THEN @ \ {st.TagName} ELSE @]
              /\ RevertStepReturns(TagStepError(localOk, remoteTried, remoteOk), "Commits")
       ELSE /\ RevertStepReturns("nil", "Commits")
            /\ UNCHANGED <<repo, calls>>
    /\ unchangedByRevert

\* tool.go:95-105: the release commit was pushed
RevertPushedCommit ==
    \E revertOk \in {FALSE, st.ReleaseHead <= Len(repo.local)},
       commitOk \in BOOLEAN, pushOk \in BOOLEAN :
      LET revertCall == Call("RevertCommit", NoTag, st.ReleaseHead, revertOk)
          commitCall == Call("CreateCommit", NoTag, st.ReleaseHead, commitOk)
          pushCall == Call("PushCommits", NoTag, NoHash, pushOk)
          corrected ==
              IF revertOk THEN [repo EXCEPT !.local = Append(@, "revert")]
              ELSE IF commitOk THEN [repo EXCEPT !.local = Append(@, "empty revert")]
              ELSE repo
      IN
      /\ calls' = IF revertOk THEN calls \o <<revertCall, pushCall>>
                  ELSE calls \o <<revertCall, commitCall, pushCall>>
      /\ repo' = IF pushOk THEN PushedHistory(corrected) ELSE corrected
      /\ RevertStepReturns(IF pushOk THEN "nil" ELSE "push", "CleanUntracked")

\* tool.go:106-113: the release commit was not pushed
RevertHardReset ==
    \E ok \in {FALSE, st.PreHead <= Len(repo.local)} :
      /\ calls' = Append(calls, Call("HardResetTo", NoTag, st.PreHead, ok))
      /\ repo' = IF ok THEN [repo EXCEPT !.local = SubSeq(@, 1, st.PreHead)] ELSE repo
      /\ RevertStepReturns(IF ok THEN "nil" ELSE "hard reset", "CleanUntracked")

\* tool.go:92-119
RevertCommits ==
    /\ pc = "Commits"
    /\ LET how == CommitCompensation(st) IN
       IF how = "revert" THEN RevertPushedCommit
       ELSE IF how = "reset" THEN RevertHardReset
       ELSE /\ RevertStepReturns(IF how = "inconsistent" THEN "inconsistent state" ELSE "nil",
                                 "CleanUntracked")
            /\ UNCHANGED <<repo, calls>>
    /\ unchangedByRevert

\* tool.go:121-130
RevertCleanUntracked ==
    /\ pc = "CleanUntracked"
    /\ IF CleansUntracked(st)
       THEN \E ok \in BOOLEAN :
              /\ calls' = Append(calls, Call("CleanUntracked", NoTag, NoHash, ok))
              /\ repo' = IF ok THEN [repo EXCEPT !.untracked = FALSE] ELSE repo
              /\ revertErr' = IF ok THEN "nil" ELSE "clean"
       ELSE /\ revertErr' = "nil"
            /\ UNCHANGED <<repo, calls>>
    /\ pc' = "RevertReturned"
    /\ unchangedByRevert

\* -------------------------------------------- Service.Run after Release
\* Run returning the rollback failure in place of the release failure.
RunError_RollbackOnly(rollbackFailed) ==
    IF rollbackFailed THEN {"rollback"} ELSE {"release"}

\* service.go:68-76: the error Run returns when Release has failed: the release
\* failure, wrapped together with the rollback failure when there is one.
RunError(rollbackFailed) ==
    IF rollbackFailed THEN {"release", "rollback"} ELSE {"release"}

\* service.go:71-76
RunReturnsReleaseError ==
    /\ pc = "RevertReturned"
    /\ run' = [run EXCEPT !.returned = TRUE, !.err = RunError(revertErr # "nil")]
    /\ pc' = "Respond"
    /\ UNCHANGED <<logger, gateway, initCalls, request, cfgFile, cfg, describeTag, versions, preflight, guard,
                   step, State, st, repo, calls, releaseCalls, revertCalls, releaseErr,
                   revertErr, stdout, exitCode>>

\* updateConfig keeping the version the configuration was loaded with.
SavedConfig_Stale(c, newVersion) == c

\* service.go:103: the configuration handed to SaveConfig
SavedConfig(c, newVersion) == [c EXCEPT !.Version = newVersion]

\* Run returning the failure of updateConfig.
RunErrorAfterSave_Fatal(saveFailed) == IF saveFailed THEN {"config"} ELSE {}

\* service.go:79-88: the error Run returns after a successful Release; a failed
\* updateConfig is printed as a warning and Run returns nil.
RunErrorAfterSave(saveFailed) == {}

\* service.go:79-88 and updateConfig
updateConfig ==
    /\ pc = "updateConfig"
    /\ cfg' = SavedConfig(cfg, versions.next)
    /\ \E outcome \in {"written", "not opened", "truncated"} :
         LET saved == outcome = "written" IN
         /\ cfgFile' = WriteFile(cfgFile, cfg', outcome)
         /\ calls' = Append(calls, Call("SaveConfig", TagOf(cfg'.Version), NoHash, saved))
         /\ run' = [run EXCEPT !.returned = TRUE, !.err = RunErrorAfterSave(~saved),
                                !.warned = ~saved]
    /\ pc' = "Respond"
    /\ UNCHANGED <<logger, gateway, initCalls, request, describeTag, versions, preflight, guard, step, State, st,
                   repo, releaseCalls, revertCalls, releaseErr, revertErr,
                   stdout, exitCode>>

\* handler.go:113-163 and main.go:57-66: the response of a run of Service.Run
HandleReleaseResponds ==
    /\ pc = "Respond"
    /\ IF run.err # {}
       THEN Respond(Response("error", "RELEASE_FAILED"))
       ELSE Respond(Response("success", "released"))
    /\ UNCHANGED <<logger, gateway, initCalls, request, cfgFile, cfg, describeTag, versions, preflight, guard,
                   step, State, st, repo, calls, releaseCalls, revertCalls, releaseErr,
                   revertErr, run>>

\* ---------------------------------------------------------- specifications
Release ==
    \/ ReleaseGetPreHead
    \/ SyncJReleaser
    \/ CreateReleaseCommit
    \/ ReleaseGetReleaseHead
    \/ CreateGitTag
    \/ PushCommits
    \/ PushGitTag
    \/ ToolDryRun
    \/ RunTool

RevertGitRelease ==
    \/ RevertDeleteGitHubRelease
    \/ RevertTags
    \/ RevertCommits
    \/ RevertCleanUntracked

Next ==
    \/ Main
    \/ HandleInit
    \/ HandleValidate
    \/ HandleQuery
    \/ LoadConfig
    \/ GetNewVersion
    \/ DryRun
    \/ Preflight
    \/ RunVersionGuard
    \/ GetTool
    \/ Release
    \/ RevertRelease
    \/ RevertGitRelease
    \/ RunReturnsReleaseError
    \/ updateConfig
    \/ HandleReleaseResponds

\* One release request served by the handler process.
Spec == Init /\ [][Next]_vars

\* RevertGitRelease applied to every GitReleaseState value, in a repository on
\* which the recorded side effects have happened.
RevertedTag == TagOf(<<1, 2, 3>>)

InitRevert ==
    /\ InitCommon
    /\ GatewayIdle
    /\ pc = "DeleteGitHubRelease"
    /\ cfg = NoConfig
    /\ request = ReleaseRequest("patch", FALSE)
    /\ cfgFile = [ReleaseSystem |-> "goreleaser", Version |-> <<1, 2, 2>>]
    /\ describeTag = NoTag
    /\ \E n \in 1..MaxHistory :
         /\ st \in [PreHead : {NoHash, n}, ReleaseHead : {NoHash, n + 1},
                    TagName : {NoTag, RevertedTag}, GitHubReleaseTag : {NoTag, RevertedTag},
                    PushedCommit : BOOLEAN, PushedTag : BOOLEAN,
                    CreatedGitHubRelease : BOOLEAN]
         /\ LET history == IF st.ReleaseHead = NoHash THEN History(n)
                           ELSE Append(History(n), "release")
            IN
            repo = [local |-> history,
                    remote |-> IF st.PushedCommit THEN history ELSE History(n),
                    localTags |-> {st.TagName} \ {NoTag},
                    remoteTags |-> IF st.PushedTag THEN {st.TagName} \ {NoTag} ELSE {},
                    releases |-> IF st.CreatedGitHubRelease
                                 THEN {st.GitHubReleaseTag} \ {NoTag} ELSE {},
                    untracked |-> TRUE, binary |-> TRUE, toolConfig |-> "valid"]

SpecRevert == InitRevert /\ [][RevertGitRelease]_vars

\* ------------------------------------------- the version guard on its own
\* Version components at and next to both ends of the word.
VersionNumbers == {0, 1, MaxUint}

\* The releases and the prereleases of every numbering: what Validate accepts as
\* NekoConfig.Version and what semver.NewVersion reads out of a tag.
Versions ==
    {<<a, b, c>> : a \in VersionNumbers, b \in VersionNumbers, c \in VersionNumbers}
    \cup {<<a, b, c, 1>> : a \in VersionNumbers, b \in VersionNumbers, c \in VersionNumbers}

\* The strings handed to EnsureVersionIsValid as latestTag: the empty string, text
\* that is no version, versions with and without the v, a version behind a prefix
\* that semver.NewVersion rejects.
LatestTags ==
    {NoTag, GarbageTag} \cup [prefix : {"", "v"}, ver : Versions]
    \cup {[prefix |-> "garbage", ver |-> <<1, 0, 0>>]}

InitVersion ==
    /\ InitCommon
    /\ GatewayIdle
    /\ pc = "EnsureVersionIsValid"
    /\ request = ReleaseRequest("patch", FALSE)
    /\ cfgFile \in [ReleaseSystem : {"goreleaser"}, Version : Versions]
    /\ cfg = cfgFile
    /\ describeTag \in LatestTags
    /\ st = ZeroGitReleaseState
    /\ repo = [local |-> History(1), remote |-> History(1),
               localTags |-> TagsOf(describeTag), remoteTags |-> TagsOf(describeTag),
               releases |-> TagsOf(describeTag), untracked |-> FALSE,
               binary |-> TRUE, toolConfig |-> "valid"]

\* EnsureVersionIsValid(cfg, latestTag) with the tag as it stands; its outcome is
\* kept in guard.handler and versions.old.
ApplyEnsureVersionIsValid ==
    /\ pc = "EnsureVersionIsValid"
    /\ LET version == EnsureVersionIsValid(cfg.Version, describeTag) IN
       /\ guard' = [guard EXCEPT !.handler = IF version = NoVersion THEN "fail" ELSE "ok"]
       /\ versions' = [versions EXCEPT !.old = version]
    /\ pc' = "VersionGuard"
    /\ UNCHANGED <<logger, gateway, initCalls, request, cfgFile, cfg, describeTag, preflight, step, State, st,
                   repo, calls, releaseCalls, revertCalls, releaseErr, revertErr, run,
                   stdout, exitCode>>

\* VersionGuard(cfg) in a repository whose git describe prints the tag; its
\* outcome is kept in guard.run and versions.run.
ApplyVersionGuard ==
    /\ pc = "VersionGuard"
    /\ LET version == VersionGuard(cfg, describeTag) IN
       /\ guard' = [guard EXCEPT !.run = IF version = NoVersion THEN "fail" ELSE "ok"]
       /\ versions' = [versions EXCEPT !.run = version]
    /\ pc' = "NextVersion"
    /\ UNCHANGED <<logger, gateway, initCalls, request, cfgFile, cfg, describeTag, preflight, step, State, st,
                   repo, calls, releaseCalls, revertCalls, releaseErr, revertErr, run,
                   stdout, exitCode>>

\* NextVersion(version, t) of the configured version for each release type.
ApplyNextVersion ==
    /\ pc = "NextVersion"
    /\ \E t \in Types :
         /\ request' = [request EXCEPT !.command = t]
         /\ versions' = [versions EXCEPT !.next = NextVersion(cfg.Version, t)]
    /\ pc' = "done"
    /\ UNCHANGED <<logger, gateway, initCalls, cfgFile, cfg, describeTag, preflight, guard, step, State,
                   st, repo, calls, releaseCalls, revertCalls, releaseErr, revertErr,
                   run, stdout, exitCode>>

NextVersionGuard ==
    \/ ApplyEnsureVersionIsValid
    \/ ApplyVersionGuard
    \/ ApplyNextVersion

SpecVersion == InitVersion /\ [][NextVersionGuard]_vars

\* ------------------------------------------------- the init command again
\* The init command started in a directory with or without a configuration
\* file, a backend configuration file and the backend's binary.
InitInit ==
    /\ InitCommon
    /\ GatewayIdle
    /\ pc = "main"
    /\ cfg = NoConfig
    /\ request \in {r \in Requests : r.command = "init"}
    /\ cfgFile \in {NoConfig, [ReleaseSystem |-> "goreleaser", Version |-> <<1, 2, 2>>]}
    /\ describeTag = NoTag
    /\ st = ZeroGitReleaseState
    /\ \E binary \in BOOLEAN, toolConfig \in {"absent", "valid", "invalid"} :
         repo = [local |-> History(1), remote |-> History(1),
                 localTags |-> {}, remoteTags |-> {}, releases |-> {},
                 untracked |-> FALSE, binary |-> binary, toolConfig |-> toolConfig]

\* The same command is run again in the same directory: a new handler process
\* reads the same request. stdout keeps the responses of the earlier runs.
Again ==
    /\ pc = "exited"
    /\ Len(stdout) < MaxRuns
    /\ pc' = "main"
    /\ exitCode' = -1
    /\ UNCHANGED <<logger, gateway, initCalls, request, cfgFile, cfg, describeTag, versions, preflight, guard,
                   step, State, st, repo, calls, releaseCalls, revertCalls, releaseErr,
                   revertErr, run, stdout>>

NextInit ==
    \/ Main
    \/ HandleInit
    \/ Again

SpecInit == InitInit /\ [][NextInit]_vars

\* ------------------------------------------------------ Dispatcher.Dispatch
\* The gateway side: Dispatch starts the plugin as a child process, feeds it
\* the request, captures its two output streams and builds the response.
\* The child is any program: it makes a sequence of writes (its script) and
\* exits with a code. A write is one document on stdout or one line on stderr.

\* One write: stream "out" carries a response document (with a status, and
\* with or without Logs of its own), another JSON value that decodes into a
\* Response with no field set ("json": {} or null), or text that is no JSON;
\* stream "err"
\* carries one line: blank, "ts [cat] msg", any other text, or a line longer
\* than the scanner's token limit.
StdoutWrites ==
    {[stream |-> "out", kind |-> "response", status |-> "success", own |-> FALSE],
     [stream |-> "out", kind |-> "response", status |-> "error", own |-> TRUE],
     [stream |-> "out", kind |-> "json", status |-> "", own |-> FALSE],
     [stream |-> "out", kind |-> "text", status |-> "", own |-> FALSE]}

StderrWrites ==
    {[stream |-> "err", kind |-> k, status |-> "", own |-> FALSE] :
        k \in {"blank", "structured", "plain", "long"}}

ScriptsOver(writes) == UNION {[1..n -> writes] : n \in 0..MaxWrites}

ExitCodes == {0, 1}

\* A log entry the handler put into its own response, not read from stderr.
OwnLog == [line |-> 0, structured |-> FALSE]

\* Before Dispatch is called: the handler model stands still.
InitGateway(scripts) ==
    /\ InitCommon
    /\ pc = "main"
    /\ request = ReleaseRequest("patch", FALSE)
    /\ cfgFile = NoConfig
    /\ cfg = NoConfig
    /\ describeTag = NoTag
    /\ st = ZeroGitReleaseState
    /\ repo = [local |-> History(1), remote |-> History(1),
               localTags |-> {}, remoteTags |-> {}, releases |-> {},
               untracked |-> FALSE, binary |-> TRUE, toolConfig |-> "valid"]
    /\ child \in [state : {"none"}, script : scripts, next : {1}, code : ExitCodes]
    /\ pipes = [out |-> <<>>, err |-> <<>>]
    /\ captured = [out |-> <<>>, err |-> <<>>]
    /\ dispatch = [pc |-> "Dispatch", resp |-> NoResponse, err |-> "", text |-> <<>>]
    /\ logger = NoLine

InitDispatch == InitGateway(ScriptsOver(StdoutWrites \cup StderrWrites))

\* json.Unmarshal of the captured stdout into plugin.Response: succeeds exactly
\* when the buffer holds one JSON value and nothing else.
Unmarshal(out) ==
    IF Len(out) = 1 /\ out[1].w.kind \in {"response", "json"}
    THEN [ok |-> TRUE,
          resp |-> [doc |-> out[1].id, status |-> out[1].w.status,
                    logs |-> IF out[1].w.own THEN <<OwnLog>> ELSE <<>>]]
    ELSE [ok |-> FALSE, resp |-> NoResponse]

\* parseLogLine: one entry per line, structured when the line has the
\* "timestamp [category] message" shape, the fallback entry otherwise.
parseLogLine(item) == [line |-> item.id, structured |-> item.w.kind = "structured"]

\* parseLogOutput from line i on: bufio.Scanner yields the lines in order and
\* stops at a line longer than its token limit (scanner.Err() is not read);
\* lines that are blank after TrimSpace are skipped.
RECURSIVE ScanLines(_, _)
ScanLines(err, i) ==
    IF i > Len(err) THEN <<>>
    ELSE IF err[i].w.kind = "long" THEN <<>>
    ELSE IF err[i].w.kind = "blank" THEN ScanLines(err, i + 1)
    ELSE <<parseLogLine(err[i])>> \o ScanLines(err, i + 1)

parseLogOutput(err) == IF err = <<>> THEN <<>> ELSE ScanLines(err, 1)

\* What Dispatch returns once cmd.Run has returned with exit code `code`.
DispatchResult_TransportOnFailure(code, out, err) ==
    IF code # 0
    THEN [resp |-> NoResponse, err |-> "plugin execution failed", text |-> err]
    ELSE IF ~Unmarshal(out).ok
    THEN [resp |-> NoResponse, err |-> "failed to parse plugin response", text |-> out]
    ELSE [resp |-> [Unmarshal(out).resp EXCEPT !.logs = parseLogOutput(err)],
          err |-> "", text |-> <<>>]

DispatchResult(code, out, err) ==
    IF code # 0
    THEN IF Len(out) > 0 /\ Unmarshal(out).ok
         THEN [resp |-> [Unmarshal(out).resp EXCEPT !.logs = parseLogOutput(err)],
               err |-> "", text |-> <<>>]
         ELSE [resp |-> NoResponse, err |-> "plugin execution failed", text |-> err]
    ELSE IF ~Unmarshal(out).ok
    THEN [resp |-> NoResponse, err |-> "failed to parse plugin response", text |-> out]
    ELSE [resp |-> [Unmarshal(out).resp EXCEPT !.logs = parseLogOutput(err)],
          err |-> "", text |-> <<>>]

\* When the goroutine copying `stream` into its buffer takes a step: cmd.Stdout
\* and cmd.Stderr are buffers, so os/exec gives each stream a pipe and a
\* goroutine of its own, which reads whenever its pipe holds data.
Drains_StdoutFirst(stream, p, c) ==
    /\ Len(p[stream]) > 0
    /\ stream = "err" => (c.state = "exited" /\ Len(p.out) = 0)

Drains(stream, p, c) == Len(p[stream]) > 0

\* findPlugin, json.Marshal and the start of cmd.Run.
Start ==
    /\ dispatch.pc = "Dispatch"
    /\ \E found \in BOOLEAN :
          IF found
          THEN /\ child' = [child EXCEPT !.state = "running"]
               /\ dispatch' = [dispatch EXCEPT !.pc = "Run"]
          ELSE /\ dispatch' = [dispatch EXCEPT !.pc = "returned",
                                              !.err = "plugin not found"]
               /\ UNCHANGED child
    /\ UNCHANGED <<logger, handler, pipes, captured>>

\* The child writes: it blocks while the pipe of that stream is full.
Write ==
    /\ child.state = "running"
    /\ child.next <= Len(child.script)
    /\ LET w == child.script[child.next]
       IN /\ Len(pipes[w.stream]) < PipeCap
          /\ pipes' = [pipes EXCEPT ![w.stream] = Append(@, [id |-> child.next, w |-> w])]
    /\ child' = [child EXCEPT !.next = @ + 1]
    /\ UNCHANGED <<logger, handler, captured, dispatch>>

\* The child terminates after its last write.
Exit ==
    /\ child.state = "running"
    /\ child.next > Len(child.script)
    /\ child' = [child EXCEPT !.state = "exited"]
    /\ UNCHANGED <<logger, handler, pipes, captured, dispatch>>

\* io.Copy of one chunk from the pipe of `stream` into its buffer.
Copied(stream) ==
    /\ captured' = [captured EXCEPT ![stream] = Append(@, Head(pipes[stream]))]
    /\ pipes' = [pipes EXCEPT ![stream] = Tail(@)]

\* The goroutine os/exec starts for cmd.Stdout.
CopyStdout ==
    /\ dispatch.pc = "Run"
    /\ Drains("out", pipes, child)
    /\ Copied("out")
    /\ UNCHANGED <<logger, handler, child, dispatch>>

\* The goroutine os/exec starts for cmd.Stderr.
CopyStderr ==
    /\ dispatch.pc = "Run"
    /\ Drains("err", pipes, child)
    /\ Copied("err")
    /\ UNCHANGED <<logger, handler, child, dispatch>>

\* cmd.Wait inside cmd.Run: the process has exited and both copying
\* goroutines have reached the end of their pipe.
Wait ==
    /\ dispatch.pc = "Run"
    /\ child.state = "exited"
    /\ pipes.out = <<>> /\ pipes.err = <<>>
    /\ dispatch' = [dispatch EXCEPT !.pc = "Unmarshal"]
    /\ UNCHANGED <<logger, handler, child, pipes, captured>>

\* The rest of Dispatch, on the two buffers.
Return ==
    /\ dispatch.pc = "Unmarshal"
    /\ LET r == DispatchResult(child.code, captured.out, captured.err)
       IN dispatch' = [pc |-> "returned", resp |-> r.resp, err |-> r.err,
                       text |-> r.text]
    /\ UNCHANGED <<logger, handler, child, pipes, captured>>

NextDispatch ==
    \/ Start
    \/ Write
    \/ Exit
    \/ CopyStdout
    \/ CopyStderr
    \/ Wait
    \/ Return

SpecDispatch == InitDispatch /\ [][NextDispatch]_vars

\* The same gateway where only the volume and the order of the writes vary,
\* under the scheduling Dispatch runs with: the operating system runs the
\* child whenever it can take a step, and the Go scheduler runs every runnable
\* goroutine (the two copiers and the caller of cmd.Run).
InitStreams ==
    InitGateway(ScriptsOver({[stream |-> s, kind |-> "text", status |-> "", own |-> FALSE] :
                                s \in {"out", "err"}}))

SpecDispatchLive ==
    /\ InitStreams
    /\ [][NextDispatch]_vars
    /\ WF_vars(Start)
    /\ WF_vars(Write)
    /\ WF_vars(Exit)
    /\ WF_vars(CopyStdout)
    /\ WF_vars(CopyStderr)
    /\ WF_vars(Wait)
    /\ WF_vars(Return)

\* --------------------------------------------- plugin logger and log parser
\* A string is a sequence of atoms: a space, a bracket, a colour escape
\* sequence, a word. No atom but " " holds a space and no atom but "[" and "]"
\* begins or ends with a bracket.

\* The ANSI escape sequences of package log. An escape sequence begins with
\* the ESC character.
ColorReset == "ESC[0m"

ColorPurple == "ESC[35m"

ColorBrightYellow == "ESC[93m"

ColorBrightGreen == "ESC[92m"

ColorBrightBlue == "ESC[94m"

ColorBrightCyan == "ESC[96m"

\* log.ColorText: the text between the colour and the reset sequence.
ColorText(color, text) == <<color>> \o text \o <<ColorReset>>

\* The categories of log.go:53-59 and the colour of each in categoryColors; a
\* category without a colour gets ColorReset (PluginLog.go:20-23).
Categories == {<<"init">>, <<"config">>, <<"pre-flight">>, <<"guard">>, <<"exec">>}

categoryColors(cat) ==
    CASE cat = <<"init">> -> ColorBrightYellow
      [] cat = <<"config">> -> ColorBrightCyan
      [] cat = <<"pre-flight">> -> ColorBrightYellow
      [] cat = <<"guard">> -> ColorBrightBlue
      [] cat = <<"exec">> -> ColorBrightGreen
      [] OTHER -> ColorReset

\* time.Now().Format("15:04:05")
Timestamp == <<"15:04:05">>

\* The atoms a message is made of, and the messages of the modelled calls.
MsgAtoms == {"released", " ", "error", "ERROR", "failed", "warn"}

Messages == UNION {[1..n -> MsgAtoms] : n \in 0..MaxMsg}

\* PluginLog.go:19-32, PluginPrint: the line written to stderr, without its
\* newline. msg is the message after fmt.Sprintf.
PluginPrintLine(cat, msg) ==
    Timestamp \o <<" ">> \o ColorText(categoryColors(cat), <<"[">> \o cat \o <<"]">>)
        \o <<" ">> \o msg

\* PluginLog.go:35-44, PluginV with Verbose set: the message behind the marker.
PluginVLine(cat, msg) ==
    PluginPrintLine(cat, ColorText(ColorPurple, <<"V$">>) \o <<" ">> \o msg)

\* strings.TrimSpace
RECURSIVE TrimSpace(_)
TrimSpace(s) ==
    IF s = <<>> THEN s
    ELSE IF Head(s) = " " THEN TrimSpace(Tail(s))
    ELSE IF s[Len(s)] = " " THEN TrimSpace(SubSeq(s, 1, Len(s) - 1))
    ELSE s

\* strings.Trim(s, "[]")
RECURSIVE TrimBrackets(_)
TrimBrackets(s) ==
    IF s = <<>> THEN s
    ELSE IF Head(s) \in {"[", "]"} THEN TrimBrackets(Tail(s))
    ELSE IF s[Len(s)] \in {"[", "]"} THEN TrimBrackets(SubSeq(s, 1, Len(s) - 1))
    ELSE s

\* The index of the first space of s, 0 when it has none.
FirstSpace(s) ==
    IF \E i \in 1..Len(s) : s[i] = " "
    THEN CHOOSE i \in 1..Len(s) : s[i] = " " /\ \A j \in 1..(i - 1) : s[j] # " "
    ELSE 0

\* strings.SplitN(s, " ", 3)
SplitN3(s) ==
    LET i == FirstSpace(s)
        rest == SubSeq(s, i + 1, Len(s))
        j == FirstSpace(rest)
    IN
    IF i = 0 THEN <<s>>
    ELSE IF j = 0 THEN <<SubSeq(s, 1, i - 1), rest>>
    ELSE <<SubSeq(s, 1, i - 1), SubSeq(rest, 1, j - 1), SubSeq(rest, j + 1, Len(rest))>>

\* strings.ToLower of one atom
ToLower(a) == IF a = "ERROR" THEN "error" ELSE a

\* strings.Contains(strings.ToLower(msg), word)
ContainsLower(msg, word) == \E i \in 1..Len(msg) : ToLower(msg[i]) = word

\* dipatcher.go:121-133, inferLogLevel
inferLogLevel(msg) ==
    IF ContainsLower(msg, "error") \/ ContainsLower(msg, "failed") THEN "error"
    ELSE IF ContainsLower(msg, "warn") THEN "warn"
    ELSE IF msg # <<>> /\ msg[1] = "V$" THEN "verbose"
    ELSE "info"

\* dipatcher.go:95-118, parseLogLine on the text of a line: the structured entry
\* when the second of three parts is bracketed, the fallback entry otherwise.
parseLogLineText(line) ==
    LET parts == SplitN3(line) IN
    IF /\ Len(parts) >= 3
       /\ parts[2] # <<>>
       /\ parts[2][1] = "["
       /\ parts[2][Len(parts[2])] = "]"
    THEN [level |-> inferLogLevel(parts[3]), category |-> TrimBrackets(parts[2]),
          message |-> parts[3]]
    ELSE [level |-> "info", category |-> <<"plugin">>, message |-> line]

\* One call of the plugin logger, before the line is written.
InitLog ==
    /\ InitCommon
    /\ pc = "main"
    /\ request = ReleaseRequest("patch", FALSE)
    /\ cfgFile = NoConfig
    /\ cfg = NoConfig
    /\ describeTag = NoTag
    /\ st = ZeroGitReleaseState
    /\ repo = [local |-> History(1), remote |-> History(1),
               localTags |-> {}, remoteTags |-> {}, releases |-> {},
               untracked |-> FALSE, binary |-> TRUE, toolConfig |-> "valid"]
    /\ child = [state |-> "none", script |-> <<>>, next |-> 1, code |-> 0]
    /\ pipes = [out |-> <<>>, err |-> <<>>]
    /\ captured = [out |-> <<>>, err |-> <<>>]
    /\ dispatch = [pc |-> "idle", resp |-> NoResponse, err |-> "", text |-> <<>>]
    /\ \E via \in {"PluginPrint", "PluginV"}, cat \in Categories \cup {<<"custom">>},
          msg \in Messages, verbose \in BOOLEAN :
         logger = [NoLine EXCEPT !.pc = via, !.via = via, !.cat = cat, !.msg = msg,
                                 !.Verbose = verbose]

\* PluginLog.go:19-32
PluginPrint ==
    /\ logger.pc = "PluginPrint"
    /\ logger' = [logger EXCEPT !.pc = "parseLogOutput",
                                !.line = PluginPrintLine(logger.cat, logger.msg)]
    /\ UNCHANGED <<handler, gateway>>

\* PluginLog.go:35-44: nothing is written unless Verbose is set
PluginV ==
    /\ logger.pc = "PluginV"
    /\ IF logger.Verbose
       THEN logger' = [logger EXCEPT !.pc = "parseLogOutput",
                                     !.line = PluginVLine(logger.cat, logger.msg)]
       ELSE logger' = [logger EXCEPT !.pc = "silent"]
    /\ UNCHANGED <<handler, gateway>>

\* dipatcher.go:80-88: the line is trimmed and, unless blank, parsed
ParseLine ==
    /\ logger.pc = "parseLogOutput"
    /\ logger' = [logger EXCEPT !.pc = "parsed",
                                !.entry = parseLogLineText(TrimSpace(logger.line))]
    /\ UNCHANGED <<handler, gateway>>

NextLog ==
    \/ PluginPrint
    \/ PluginV
    \/ ParseLine

SpecLog == InitLog /\ [][NextLog]_vars

\* ================================================================ claims
Issued(op) == \E i \in DOMAIN calls : calls[i].op = op

Failed(op) == \E i \in DOMAIN calls : calls[i].op = op /\ ~calls[i].ok

RevertOps == {"DeleteGitHubRelease", "DeleteLocalTag", "DeleteRemoteTag", "RevertCommit",
              "CreateCommit", "HardResetTo", "CleanUntracked"}

RevertPcs == {"DeleteGitHubRelease", "Tags", "Commits", "CleanUntracked", "RevertReturned"}

\* C1: Release is invoked, and a commit, a tag or a push attempted, only when
\* every preflight predicate has passed and the version guard has returned a
\* version; a failed predicate or a failed guard leaves no side effect.
C1_ReleaseOnlyAfterChecks ==
    /\ (releaseCalls > 0 \/ calls # <<>>) =>
          /\ \A i \in 1..Len(Checks) : preflight[i] = "pass"
          /\ guard.handler = "ok"
          /\ guard.run = "ok"
    /\ ((\E i \in 1..Len(Checks) : preflight[i] = "fail") \/ guard.handler = "fail"
          \/ guard.run = "fail") =>
          /\ releaseCalls = 0
          /\ calls = <<>>
          /\ repo.local = repo.remote

C1_Witness ==
    /\ pc = "exited"
    /\ exitCode = 1
    /\ preflight[5] = "fail"
    /\ releaseCalls = 0
    /\ calls = <<>>

\* The outcome of a release attempt: Committed when Run returned nil, Failed when
\* it returned an error or Preflight ended the process with an error response.
SagaOutcome ==
    IF run.returned /\ run.err = {} THEN "Committed"
    ELSE IF run.returned \/ (exitCode = 1 /\ stdout # <<>>) THEN "Failed"
    ELSE "none"

\* C2: a failed Release is followed by exactly one RevertRelease, neither is
\* invoked again, and the run ends with an error; every run that has ended is
\* Committed or Failed, Committed exactly when Release returned nil.
C2_OneRollbackNoRetry ==
    /\ releaseCalls <= 1
    /\ revertCalls <= 1
    /\ (releaseErr = "error" /\ pc \in {"Respond", "exited"}) =>
          /\ revertCalls = 1
          /\ run.returned
          /\ run.err # {}
    /\ (pc = "exited" /\ preflight[1] # "none") =>
          /\ SagaOutcome \in {"Committed", "Failed"}
          /\ SagaOutcome = "Committed" <=> releaseErr = "nil"
          /\ SagaOutcome = "Failed" <=> stdout[Len(stdout)].status = "error"

C2_Witness ==
    /\ pc = "exited"
    /\ releaseErr = "error"
    /\ releaseCalls = 1
    /\ revertCalls = 1
    /\ SagaOutcome = "Failed"

\* C3: RevertRelease is invoked, and a compensation issued, only after Release
\* was invoked in this run and returned an error.
C3_RollbackOnlyAfterFailedRelease ==
    (revertCalls > 0 \/ pc \in RevertPcs \/ (\E op \in RevertOps : Issued(op))) =>
        /\ releaseCalls = 1
        /\ releaseErr = "error"
        /\ \A i \in 1..Len(Checks) : preflight[i] = "pass"
        /\ guard.run = "ok"

C3_Witness ==
    /\ revertCalls = 1
    /\ releaseErr = "error"
    /\ Issued("CleanUntracked")

\* C4: when Release has failed, the error of Run carries the release failure,
\* and the rollback failure as well exactly when RevertRelease failed; the
\* handler answers with status error.
C4_BothFailuresReported ==
    (run.returned /\ releaseErr = "error") =>
        /\ "release" \in run.err
        /\ "rollback" \in run.err <=> revertErr # "nil"
        /\ pc = "exited" => stdout = <<Response("error", "RELEASE_FAILED")>>

C4_Witness ==
    /\ pc = "exited"
    /\ releaseErr = "error"
    /\ revertErr \notin {"none", "nil"}
    /\ run.err = {"release", "rollback"}

\* Every field and flag of the GitReleaseState is set, for one tag.
AllFlagsSet(s) ==
    /\ s.PreHead # NoHash
    /\ s.ReleaseHead # NoHash
    /\ s.TagName # NoTag
    /\ s.GitHubReleaseTag = s.TagName
    /\ s.PushedCommit
    /\ s.PushedTag
    /\ s.CreatedGitHubRelease

\* C5: when a platform release was created for a tag, revert deletes the local
\* or the remote tag only after it has deleted that release: a successful
\* release deletion precedes every tag deletion and the release is gone by then.
C5_ReleaseDeletedBeforeTag ==
    \A i \in DOMAIN calls :
        (/\ calls[i].op \in {"DeleteLocalTag", "DeleteRemoteTag"}
         /\ st.CreatedGitHubRelease
         /\ st.GitHubReleaseTag = calls[i].tag) =>
            /\ \E j \in 1..(i - 1) :
                 /\ calls[j].op = "DeleteGitHubRelease"
                 /\ calls[j].tag = calls[i].tag
                 /\ calls[j].ok
            /\ calls[i].tag \notin repo.releases

C5_Witness ==
    /\ AllFlagsSet(st)
    /\ pc = "RevertReturned"
    /\ Len(calls) >= 3
    /\ calls[1].op = "DeleteGitHubRelease"
    /\ calls[2].op = "DeleteLocalTag"
    /\ calls[3].op = "DeleteRemoteTag"
    /\ st.TagName \notin repo.remoteTags

\* The revert of this run has gone past its tag step.
TagStepPassed ==
    /\ revertCalls = 1
    /\ pc \in {"Commits", "CleanUntracked", "RevertReturned", "Respond", "exited"}
    /\ revertErr # "github release"

\* C6: a revert after a Release that failed with PushedTag set issues the remote
\* tag deletion; one after a Release that failed with a tag name recorded and
\* PushedTag unset deletes the local tag and issues no remote tag deletion.
C6_RemoteTagDeletedIffPushed ==
    TagStepPassed =>
        /\ State.PushedTag =>
              \E i \in DOMAIN calls :
                  calls[i].op = "DeleteRemoteTag" /\ calls[i].tag = State.TagName
        /\ (~State.PushedTag /\ State.TagName # NoTag) =>
              /\ \E i \in DOMAIN calls :
                    calls[i].op = "DeleteLocalTag" /\ calls[i].tag = State.TagName
              /\ ~Issued("DeleteRemoteTag")

C6_Witness ==
    /\ pc = "exited"
    /\ releaseErr = "error"
    /\ State.PushedTag
    /\ Issued("DeleteRemoteTag")
    /\ State.TagName \notin repo.remoteTags

\* The revert has executed its commit step.
CommitStepPassed ==
    \/ pc = "CleanUntracked"
    \/ /\ pc = "RevertReturned"
       /\ revertErr \in {"nil", "clean", "push", "hard reset", "inconsistent state"}

\* C7: at its commit step, for a state with a recorded release commit, revert
\* never hard-resets a pushed commit but issues the correcting commit and the
\* push; resets an unpushed commit to the recorded PreHead and pushes nothing;
\* and without a PreHead returns the inconsistent-state error and does nothing more.
C7_CompensationByPushedFlag ==
    (CommitStepPassed /\ st.ReleaseHead # NoHash) =>
        /\ st.PushedCommit =>
              /\ ~Issued("HardResetTo")
              /\ \E i \in DOMAIN calls :
                    /\ calls[i].op = "RevertCommit"
                    /\ calls[i].hash = st.ReleaseHead
                    /\ \/ calls[i].ok /\ calls[i + 1].op = "PushCommits"
                       \/ /\ ~calls[i].ok
                          /\ calls[i + 1].op = "CreateCommit"
                          /\ calls[i + 2].op = "PushCommits"
        /\ (~st.PushedCommit /\ st.PreHead # NoHash) =>
              /\ \E i \in DOMAIN calls :
                    calls[i].op = "HardResetTo" /\ calls[i].hash = st.PreHead
              /\ ~Issued("PushCommits")
              /\ ~Issued("RevertCommit")
              /\ ~Issued("CreateCommit")
              /\ repo.remote = History(Len(repo.remote))
        /\ (~st.PushedCommit /\ st.PreHead = NoHash) =>
              /\ pc = "RevertReturned"
              /\ revertErr = "inconsistent state"
              /\ \A i \in DOMAIN calls :
                    calls[i].op \in {"DeleteGitHubRelease", "DeleteLocalTag", "DeleteRemoteTag"}

C7_Witness ==
    /\ pc = "RevertReturned"
    /\ st.ReleaseHead # NoHash
    /\ ~st.PushedCommit
    /\ st.PreHead # NoHash
    /\ revertErr = "nil"
    /\ Len(repo.local) = st.PreHead

\* The remote history holds a commit that corrects the release commit.
Countered ==
    \E i \in DOMAIN repo.remote :
        i > st.ReleaseHead /\ repo.remote[i] \in {"revert", "empty revert"}

\* C8: whenever revert returns ok for a state whose release commit was pushed, a
\* correcting commit was created and pushed to the remote.
C8_PushedReleaseCountered ==
    (/\ pc \in {"RevertReturned", "Respond", "exited"}
     /\ revertErr = "nil"
     /\ st.ReleaseHead # NoHash
     /\ st.PushedCommit) => Countered

\* C9: a failed deletion of the remote tag ends revert with that error; a failed
\* deletion of the local tag is not an error of revert, which goes on to the
\* following steps.
C9_RemoteTagFatalLocalSwallowed ==
    /\ \A i \in DOMAIN calls :
          (calls[i].op = "DeleteRemoteTag" /\ ~calls[i].ok) =>
              /\ i = Len(calls)
              /\ pc = "RevertReturned"
              /\ revertErr = "remote tag"
    /\ (Failed("DeleteLocalTag") /\ ~Failed("DeleteRemoteTag")) => CommitStepPassed \/ pc = "Commits"
    /\ revertErr # "local tag"

C9_Witness ==
    /\ pc = "RevertReturned"
    /\ Failed("DeleteLocalTag")
    /\ st.PushedTag
    /\ revertErr = "nil"

\* C10 as stated: every invocation of revert performs the cleanup.
C10_CleanupInEveryRevert == pc = "RevertReturned" => Issued("CleanUntracked")

\* C10, amended: no flag or field guards the cleanup; a revert that has returned
\* performed it exactly when no earlier step ended revert with its error.
C10_CleanupUnlessFatal ==
    pc = "RevertReturned" =>
        /\ Issued("CleanUntracked") <=> revertErr \in {"nil", "clean"}
        /\ revertErr \in {"nil", "clean", "github release", "remote tag", "push",
                          "hard reset", "inconsistent state"}

C10_Witness ==
    /\ pc = "RevertReturned"
    /\ st = ZeroGitReleaseState
    /\ calls = <<Call("CleanUntracked", NoTag, NoHash, TRUE)>>
    /\ ~repo.untracked

\* Semantic-version precedence as a number: major, minor, patch, then the
\* prerelease rank, a release ranking above every prerelease of its numbers.
Precedence(v) ==
    ((v[1] * (MaxUint + 1) + v[2]) * (MaxUint + 1) + v[3]) * 3
        + (IF Pre(v) = NoPrerelease THEN 2 ELSE Pre(v) - 1)

\* C11: for a valid local version and a latest tag that parses as a semantic
\* version, EnsureVersionIsValid fails exactly when local < remote, equal
\* versions pass and a passing call returns the local version; for a tag that
\* does not parse it never fails and returns the local version.
C11_GuardFailsIffLocalBelowRemote ==
    guard.handler # "none" =>
        /\ (describeTag.prefix \in {"", "v"} /\ describeTag.ver # NoVersion) =>
              /\ guard.handler = "fail" <=>
                    Precedence(cfg.Version) < Precedence(describeTag.ver)
              /\ guard.handler = "ok" => versions.old = cfg.Version
        /\ (describeTag.prefix \notin {"", "v"} \/ describeTag.ver = NoVersion) =>
              /\ guard.handler = "ok"
              /\ versions.old = cfg.Version

C11_Witness ==
    /\ guard.handler = "fail"
    /\ cfg.Version = <<1, 0, 0, 1>>
    /\ describeTag = TagOf(<<1, 0, 0>>)

\* C12: in a repository without a published tag the version guard fails for no
\* valid local version.
C12_NoTagNeverFails ==
    (describeTag = NoTag /\ guard.run # "none") => guard.run = "ok"

\* C13: NextVersion(v, t) has every component below the incremented one at zero
\* and is strictly greater than v.
C13_NextVersionResetsAndGrows ==
    pc = "done" =>
        /\ request.command = "major" => versions.next[2] = 0 /\ versions.next[3] = 0
        /\ request.command = "minor" => versions.next[3] = 0
        /\ Precedence(cfg.Version) < Precedence(versions.next)

\* The response the handler process has written last.
LastResponse == stdout[Len(stdout)]

\* C16: a handler process that answers with status error exits non-zero, its
\* error response being the one object on stdout.
C16_ErrorResponseExitsNonZero ==
    (pc = "exited" /\ stdout # <<>> /\ LastResponse.status = "error") =>
        /\ Len(stdout) = 1
        /\ exitCode # 0

\* The release request failed: Release was not reached or returned an error.
ReleaseNotSucceeded == pc = "exited" /\ request.command \in Types /\ releaseErr # "nil"

\* No step of a failed release request touches the configuration file.
ConfigUntouched ==
    /\ ~Issued("SaveConfig")
    /\ cfg # NoConfig => cfgFile = cfg

\* C19 as stated: after a successful Release the configuration file holds
\* NextVersion(local version, type), the version passed to Release, and the
\* response is success; on a failure path the file is unchanged.
C19_PersistedOnSuccess ==
    /\ (pc = "exited" /\ releaseErr = "nil") =>
          /\ guard.run = "ok"
          /\ cfgFile.Version = NextVersion(versions.old, request.command)
          /\ cfgFile.Version = versions.next
          /\ \E i \in DOMAIN calls :
                calls[i].op = "RunTool" /\ calls[i].ok /\ calls[i].tag = TagOf(cfgFile.Version)
          /\ stdout = <<Response("success", "released")>>
    /\ ReleaseNotSucceeded => ConfigUntouched

\* C19, amended: SaveConfig is called only after a successful Release, once, with
\* NextVersion(local version, type), the version passed to Release; the file
\* holds that version when the write succeeded, and when it failed the old
\* content or nothing readable; the response is success either way; on a
\* failure path SaveConfig is not called and the file is unchanged.
C19_PersistedWhenSaved ==
    /\ (pc = "exited" /\ releaseErr = "nil") =>
          /\ guard.run = "ok"
          /\ \E i \in DOMAIN calls :
                /\ calls[i].op = "SaveConfig"
                /\ calls[i].tag = TagOf(NextVersion(versions.old, request.command))
                /\ calls[i].tag = TagOf(versions.next)
                /\ \A j \in DOMAIN calls : calls[j].op = "SaveConfig" => j = i
                /\ \E k \in 1..(i - 1) :
                      calls[k].op = "RunTool" /\ calls[k].ok /\ calls[k].tag = calls[i].tag
                /\ IF calls[i].ok
                   THEN cfgFile = [cfg EXCEPT !.Version = versions.next]
                   ELSE cfgFile = UnreadableConfig \/ cfgFile.Version = versions.old
          /\ stdout = <<Response("success", "released")>>
    /\ ReleaseNotSucceeded => ConfigUntouched

C19_Witness ==
    /\ pc = "exited"
    /\ releaseErr = "nil"
    /\ request.command = "patch"
    /\ versions.old = <<1, 2, 2>>
    /\ cfgFile.Version = <<1, 2, 3>>
    /\ stdout = <<Response("success", "released")>>

\* C20: when Release has succeeded and the configuration could not be saved,
\* Run prints a warning and returns nil, no rollback is started and the handler
\* answers with status success.
C20_SaveFailureIsWarning ==
    (releaseErr = "nil" /\ Failed("SaveConfig")) =>
        /\ run.returned
        /\ run.err = {}
        /\ run.warned
        /\ revertCalls = 0
        /\ ~(\E op \in RevertOps : Issued(op))
        /\ pc \in {"Respond", "exited"}
        /\ pc = "exited" => stdout = <<Response("success", "released")>> /\ exitCode = 0

C20_Witness ==
    /\ pc = "exited"
    /\ releaseErr = "nil"
    /\ Failed("SaveConfig")
    /\ cfgFile.Version = versions.old
    /\ stdout = <<Response("success", "released")>>

Written(stream) ==
    SelectSeq([i \in 1..Len(child.script) |-> [id |-> i, w |-> child.script[i]]],
              LAMBDA x : x.w.stream = stream)

\* The handler's stdout decodes into a response.
StdoutParses ==
    /\ Len(Written("out")) = 1
    /\ Written("out")[1].w.kind \in {"response", "json"}

\* C14: when the handler exits non-zero, Dispatch returns the response decoded
\* from the handler's stdout exactly when that stdout decodes; otherwise it
\* returns no response and the transport error that carries the raw stderr.
C14_ParsedResponseOnNonZeroExit ==
    (dispatch.pc = "returned" /\ child.state = "exited" /\ child.code # 0) =>
        IF StdoutParses
        THEN /\ dispatch.err = ""
             /\ dispatch.resp.doc = Written("out")[1].id
             /\ dispatch.resp.status = Written("out")[1].w.status
        ELSE /\ dispatch.err = "plugin execution failed"
             /\ dispatch.resp = NoResponse
             /\ dispatch.text = Written("err")

C14_Witness ==
    /\ dispatch.pc = "returned"
    /\ child.code # 0
    /\ Written("err") # <<>>
    /\ dispatch.err = ""
    /\ dispatch.resp.status = "error"

\* The stderr lines of the handler that are not blank, in the order written.
NonBlankLines == SelectSeq(Written("err"), LAMBDA x : x.w.kind # "blank")

\* C17: the Logs of a response Dispatch returns are one entry per non-blank
\* stderr line of the handler, in the order written, whatever Logs the
\* handler's own response had; the handler has ended by then, and the response
\* itself is the stdout document, with no stderr text in the result.
C17_LogsAreStderrLines ==
    (dispatch.pc = "returned" /\ dispatch.err = "") =>
        /\ child.state = "exited"
        /\ dispatch.resp.logs =
              [i \in 1..Len(NonBlankLines) |->
                  [line |-> NonBlankLines[i].id,
                   structured |-> NonBlankLines[i].w.kind = "structured"]]
        /\ dispatch.resp.doc = Written("out")[1].id
        /\ dispatch.text = <<>>

\* The child is in a write that cannot proceed: the pipe of the stream is full.
ChildBlocked ==
    /\ child.state = "running"
    /\ child.next <= Len(child.script)
    /\ Len(pipes[child.script[child.next].stream]) >= PipeCap

\* C18: Dispatch goes on past cmd.Run only after the handler has terminated
\* and everything it wrote on both streams is captured; a handler blocked on
\* a full pipe is always unblocked again, and once the handler has exited
\* Dispatch returns, for every order and number of writes on the two streams.
C18_DrainedConcurrentlyNoDeadlock ==
    /\ []((dispatch.pc \in {"Unmarshal", "returned"} /\ child.state # "none") =>
             /\ child.state = "exited"
             /\ captured.out = Written("out")
             /\ captured.err = Written("err"))
    /\ (ChildBlocked ~> ~ChildBlocked)
    /\ (child.state = "running" ~> child.state = "exited")
    /\ (child.state = "exited" ~> dispatch.pc = "returned")

C18_Witness ==
    /\ dispatch.pc = "returned"
    /\ child.state = "exited"
    /\ Len(Written("err")) > PipeCap
    /\ Written("out") # <<>>
    /\ captured.err = Written("err")

\* C21: in a release attempt the version guard is evaluated only after every
\* preflight predicate has passed, so a VERSION_ERROR is reported only for a
\* repository that passed Preflight.
C21_PreflightBeforeGuard ==
    /\ (guard.handler # "none" \/ guard.run # "none") =>
          \A i \in 1..Len(Checks) : preflight[i] = "pass"
    /\ (pc = "exited" /\ LastResponse.code = "VERSION_ERROR") =>
          \A i \in 1..Len(Checks) : preflight[i] = "pass"

\* The error code the release contract gives each preflight predicate.
CodeOfCheck ==
    [IsClean |-> "UNCOMMITTED_CHANGES", EnsureNotDetached |-> "DETACHED_HEAD",
     OnMainBranch |-> "INCORRECT_BRANCH", HasUpstream |-> "NO_UPSTREAM_BRANCH",
     IsUpToDate |-> "BRANCH_OUT_OF_DATE"]

\* C22: the preflight predicates are evaluated in the order clean tree, attached
\* HEAD, allowed branch, upstream, up to date: a predicate is evaluated only
\* when all before it passed, and the first that fails ends the process with
\* its own error code as the only response, no later predicate being evaluated.
C22_FirstPreflightFailureWins ==
    /\ Checks = <<"IsClean", "EnsureNotDetached", "OnMainBranch", "HasUpstream",
                  "IsUpToDate">>
    /\ \A i \in 1..Len(Checks) :
          /\ preflight[i] # "none" => \A j \in 1..(i - 1) : preflight[j] = "pass"
          /\ preflight[i] = "fail" =>
                /\ \A j \in (i + 1)..Len(Checks) : preflight[j] = "none"
                /\ pc = "exited"
                /\ stdout = <<Response("error", CodeOfCheck[Checks[i]])>>
                /\ exitCode = 1

C22_Witness ==
    /\ pc = "exited"
    /\ preflight[1] = "pass" /\ preflight[2] = "pass"
    /\ preflight[4] = "fail"
    /\ stdout = <<Response("error", "NO_UPSTREAM_BRANCH")>>

\* The side effects of a release: the release commit, the tag, the two pushes
\* and the rewrite of the configuration file.
ReleaseEffects ==
    {"CreateReleaseCommit", "CreateGitTag", "PushCommits", "PushGitTag", "SaveConfig"}

\* C23: on a machine without the backend's binary a release makes no commit, no
\* tag, no push and no configuration rewrite: Release fails before any of them.
C23_MissingBinaryFailsFast ==
    (request.command \in Types /\ ~repo.binary) =>
        /\ \A i \in DOMAIN calls : calls[i].op \in ReleaseEffects => ~calls[i].ok
        /\ releaseErr # "nil"

\* C24: when the init command is run a second time in a directory whose first
\* run succeeded, the backend's configuration file being there, the second run
\* generates nothing, changes nothing and reports success like the first.
C24_InitIdempotent ==
    /\ \A i, j \in DOMAIN initCalls :
          (i < j /\ initCalls[i].op = "Generate" /\ initCalls[i].ok) =>
              initCalls[j].op # "Generate"
    /\ (Len(stdout) = 2 /\ stdout[1].status = "success" /\ repo.toolConfig # "absent") =>
          stdout[2].status = "success"

\* A side-effecting call that succeeded.
Done(op) == \E i \in DOMAIN calls : calls[i].op = op /\ calls[i].ok

\* release-it makes the commit, the tag and both pushes inside the tool run.
ToolDidAll == cfg.ReleaseSystem = "release-it" /\ Done("RunTool")

\* C25: when Release has returned an error, the GitReleaseState handed to the
\* revert shows every side effect Release completed: the release commit, the
\* tag, the pushed commit and the pushed tag.
C25_CompletedStepsRecorded ==
    revertCalls > 0 =>
        /\ (Done("CreateReleaseCommit") \/ ToolDidAll) => st.ReleaseHead # NoHash
        /\ (Done("CreateGitTag") \/ ToolDidAll) => st.TagName = ReleaseTag
        /\ (Done("PushCommits") \/ ToolDidAll) => st.PushedCommit
        /\ (Done("PushGitTag") \/ ToolDidAll) => st.PushedTag

\* What the fields of the backend's State may hold once set.
StateFieldsJustified ==
    /\ State.PreHead # NoHash => State.PreHead <= Len(repo.local)
    /\ State.ReleaseCommitHash # NoHash =>
          (Done("CreateReleaseCommit") \/ ToolDidAll)
    /\ State.TagName # NoTag =>
          /\ State.TagName = ReleaseTag
          /\ Done("CreateGitTag") \/ Done("RunTool")
    /\ State.PushedCommit => (Done("PushCommits") \/ ToolDidAll)
    /\ State.PushedTag => (Done("PushGitTag") \/ ToolDidAll)
    /\ State.Ran => Done("RunTool")

\* A field of State that holds a value keeps it.
StateFieldsKept ==
    /\ State.PreHead # NoHash => State'.PreHead = State.PreHead
    /\ State.ReleaseCommitHash # NoHash => State'.ReleaseCommitHash = State.ReleaseCommitHash
    /\ State.TagName # NoTag => State'.TagName = State.TagName
    /\ State.PushedCommit => State'.PushedCommit
    /\ State.PushedTag => State'.PushedTag
    /\ State.Ran => State'.Ran

\* C26: the backend's state is all zero when Release starts, a field is set
\* only after the side effect it records has succeeded (the pushed flags after
\* the pushes, the tag name after the tag exists), and a field once set is
\* never changed or reset.
C26_StateSetOnceAfterEffect ==
    /\ [](releaseCalls = 0 => State = ZeroState)
    /\ [](step = 1 => State = ZeroState)
    /\ []StateFieldsJustified
    /\ [][StateFieldsKept]_vars

C26_Witness ==
    /\ cfg.ReleaseSystem = "goreleaser"
    /\ releaseErr = "error"
    /\ State.PushedCommit /\ State.PushedTag
    /\ State.TagName = ReleaseTag
    /\ ~State.Ran

\* C27: for each backend the flag that a platform release was created is set
\* only by a Release that returns nil, as its last step; hence it is unset in
\* every state handed to a revert of the saga, and no such revert issues the
\* deletion of the platform release.
C27_ReleaseFlagOnlyOnSuccess ==
    /\ State.Ran => (releaseErr = "nil" /\ revertCalls = 0)
    /\ revertCalls > 0 => (releaseErr = "error" /\ ~st.CreatedGitHubRelease)
    /\ ~Issued("DeleteGitHubRelease")

C27_Witness ==
    /\ cfg.ReleaseSystem = "release-it"
    /\ State.Ran
    /\ releaseErr = "nil"
    /\ pc = "exited"
    /\ revertCalls = 0

\* C28: a failed deletion of the platform release or of the remote tag ends
\* revert with that error: it is the last call revert makes, so no commit
\* compensation and no cleanup is attempted, a pushed release commit stays on
\* the remote and the untracked files stay in place.
C28_RevertStopsAtFatalFailure ==
    \A i \in DOMAIN calls :
        (calls[i].op \in {"DeleteGitHubRelease", "DeleteRemoteTag"} /\ ~calls[i].ok) =>
            /\ i = Len(calls)
            /\ pc = "RevertReturned"
            /\ revertErr = (IF calls[i].op = "DeleteGitHubRelease"
                            THEN "github release" ELSE "remote tag")
            /\ \A op \in {"RevertCommit", "CreateCommit", "HardResetTo", "PushCommits",
                          "CleanUntracked"} : ~Issued(op)
            /\ repo.untracked
            /\ (st.ReleaseHead # NoHash /\ st.PushedCommit) =>
                  /\ repo.remote = repo.local
                  /\ repo.remote[Len(repo.remote)] = "release"

C28_Witness ==
    /\ pc = "RevertReturned"
    /\ revertErr = "github release"
    /\ st.ReleaseHead # NoHash
    /\ st.PushedCommit
    /\ Len(calls) = 1
    /\ repo.untracked
    /\ repo.remote[Len(repo.remote)] = "release"

\* C29: when Release of the release-it backend has returned an error, its state
\* records no release commit, no tag and no flag, and the revert that follows
\* issues nothing but the cleanup of untracked files.
C29_ReleaseItRevertOnlyCleans ==
    (cfg.ReleaseSystem = "release-it" /\ releaseErr = "error") =>
        /\ State.ReleaseCommitHash = NoHash
        /\ State.TagName = NoTag
        /\ ~State.PushedCommit /\ ~State.PushedTag /\ ~State.Ran
        /\ \A op \in RevertOps \ {"CleanUntracked"} : ~Issued(op)
        /\ pc \in {"RevertReturned", "Respond", "exited"} =>
              /\ Issued("CleanUntracked")
              /\ revertErr \in {"nil", "clean"}

C29_Witness ==
    /\ cfg.ReleaseSystem = "release-it"
    /\ releaseErr = "error"
    /\ Done("RunTool")
    /\ pc = "exited"
    /\ calls[Len(calls)].op = "CleanUntracked"
    /\ Len(repo.remote) > State.PreHead

\* The message holds none of the words the severity is inferred from.
Neutral(msg) == \A w \in {"error", "failed", "warn"} : ~ContainsLower(msg, w)

\* C30: the line PluginPrint(cat, msg) writes is parsed by the gateway into an
\* entry of category cat and message msg, not into the fallback entry; the
\* line PluginV writes for a message without "error", "failed" and "warn" is
\* parsed into an entry of severity verbose.
C30_LoggerRoundTrip ==
    logger.pc = "parsed" =>
        /\ logger.via = "PluginPrint" =>
              /\ logger.entry.category = logger.cat
              /\ logger.entry.message = logger.msg
        /\ (logger.via = "PluginV" /\ Neutral(logger.msg)) =>
              logger.entry.level = "verbose"

====
